---- MODULE Spec2Model ----
(***************************************************************************)
(* State-machine model of the avatar background script                     *)
(* (EnhancedAvatarCardManager): address normalisation, the prioritised     *)
(* source chain, the pending-request table and the bounded TTL cache.      *)
(*                                                                         *)
(* Strings are sequences of one-character tokens.  A JavaScript macrotask  *)
(* (one incoming message, one timer callback, one network response with    *)
(* all the promise reactions it triggers) is one action: the manager runs  *)
(* in a single event loop, and an async function gives up control only at  *)
(* an await of a network fetch.                                            *)
(***************************************************************************)
EXTENDS Integers, Sequences, FiniteSets, TLC

(***************************************************************************)
(* Bounds of the model                                                     *)
(***************************************************************************)
\* the clock stops advancing at MaxTime
MaxTime == 3
\* at most MaxCalls getAvatar calls are issued in one behaviour of Spec,
\* MaxCacheCalls in one of SpecCache, MaxJoinCalls in one of SpecJoin,
\* MaxEvictCalls in one of SpecEvict,
\* MaxAddrCalls in one of SpecAddr
MaxCalls == 2
MaxCacheCalls == 4
MaxJoinCalls == 3
MaxEvictCalls == 5
MaxAddrCalls == 1
\* MaxSettingsCalls in one of SpecSettings
MaxSettingsCalls == 2
\* the local parts of SpecInitials have up to MaxLocalLen characters and its
\* domains have labels of up to MaxLabelLen characters
MaxLocalLen == 3
MaxLabelLen == 2
\* at most MaxUpdates updateSettings calls are issued in one behaviour
MaxUpdates == 1

(***************************************************************************)
(* Characters and strings                                                  *)
(***************************************************************************)
\* U+0142 (l with stroke) and its upper case U+0141: outside Latin-1
LSTROKE == "l/"
USTROKE == "L/"

\* U+00DF (sharp s): Latin-1, and its upper case is the two letters SS
SHARPS == "sz"

\* String.prototype.toUpperCase of a one-character string (a string: the upper
\* case of a character can be longer than the character)
UpperChar(c) ==
  CASE c = "a" -> <<"A">> [] c = "b" -> <<"B">> [] c = "c" -> <<"C">>
    [] c = "e" -> <<"E">> [] c = "g" -> <<"G">> [] c = "i" -> <<"I">>
    [] c = "l" -> <<"L">> [] c = "m" -> <<"M">> [] c = "n" -> <<"N">>
    [] c = "o" -> <<"O">> [] c = "x" -> <<"X">>
    [] c = "d" -> <<"D">> [] c = "h" -> <<"H">> [] c = "j" -> <<"J">>
    [] c = "k" -> <<"K">> [] c = "s" -> <<"S">> [] c = "w" -> <<"W">>
    [] c = LSTROKE -> <<USTROKE>> [] c = SHARPS -> <<"S", "S">>
    [] OTHER -> <<c>>

LowerChar(c) ==
  CASE c = "A" -> "a" [] c = "B" -> "b" [] c = "C" -> "c" [] c = "E" -> "e"
    [] c = "G" -> "g" [] c = "I" -> "i" [] c = "L" -> "l" [] c = "M" -> "m"
    [] c = "N" -> "n" [] c = "O" -> "o" [] c = "X" -> "x"
    [] c = "D" -> "d" [] c = "H" -> "h" [] c = "J" -> "j"
    [] c = "K" -> "k" [] c = "S" -> "s" [] c = "W" -> "w"
    [] c = USTROKE -> LSTROKE
    [] OTHER -> c

\* String.prototype.charCodeAt of a one-character string
CharCode(c) ==
  CASE c = " " -> 32 [] c = "-" -> 45 [] c = "." -> 46 [] c = "@" -> 64
    [] c = "A" -> 65 [] c = "B" -> 66 [] c = "C" -> 67 [] c = "E" -> 69
    [] c = "G" -> 71 [] c = "I" -> 73 [] c = "L" -> 76 [] c = "M" -> 77
    [] c = "N" -> 78 [] c = "O" -> 79 [] c = "S" -> 83 [] c = "X" -> 88
    [] c = "a" -> 97 [] c = "b" -> 98 [] c = "c" -> 99 [] c = "e" -> 101
    [] c = "g" -> 103 [] c = "i" -> 105 [] c = "l" -> 108 [] c = "m" -> 109
    [] c = "n" -> 110 [] c = "o" -> 111 [] c = "x" -> 120
    [] c = "D" -> 68 [] c = "H" -> 72 [] c = "J" -> 74 [] c = "K" -> 75
    [] c = "W" -> 87 [] c = "d" -> 100 [] c = "h" -> 104 [] c = "j" -> 106
    [] c = "k" -> 107 [] c = "s" -> 115 [] c = "w" -> 119
    [] c = SHARPS -> 223 [] c = USTROKE -> 321 [] c = LSTROKE -> 322

ToLowerCase(s) == [i \in 1..Len(s) |-> LowerChar(s[i])]

RECURSIVE ToUpperCase(_)
ToUpperCase(s) == IF s = <<>> THEN <<>> ELSE UpperChar(Head(s)) \o ToUpperCase(Tail(s))

IsSpace(c) == c = " "

\* String.prototype.trim
RECURSIVE TrimLeft(_)
TrimLeft(s) == IF s # <<>> /\ IsSpace(Head(s)) THEN TrimLeft(Tail(s)) ELSE s

RECURSIVE TrimRight(_)
TrimRight(s) ==
  IF s # <<>> /\ IsSpace(s[Len(s)]) THEN TrimRight(SubSeq(s, 1, Len(s) - 1)) ELSE s

Trim(s) == TrimRight(TrimLeft(s))

\* btoa accepts only code units 0..255 (it throws InvalidCharacterError otherwise)
IsLatin1(c) == CharCode(c) <= 255

\* positions of character c in s
IndexesOf(s, c) == {i \in 1..Len(s) : s[i] = c}

SetMax(S) == CHOOSE m \in S : \A n \in S : n <= m
SetMin(S) == CHOOSE m \in S : \A n \in S : m <= n

\* the absent domain (null); extractDomain never yields the empty string
Null == <<>>

\* (mutant) the text after the last '@' is taken for the domain without
\* asking for a dot in it, and the whole text when there is no '@'
extractDomainLax(email) ==
  IF IndexesOf(email, "@") = {} THEN ToLowerCase(email)
  ELSE ToLowerCase(SubSeq(email, SetMax(IndexesOf(email, "@")) + 1, Len(email)))

\* email.match(/@([^@]+\.[^@]+)$/): the text after the last '@', when it has a
\* '.' with at least one character on each side; lower-cased
extractDomain(email) ==
  IF email = <<>> \/ IndexesOf(email, "@") = {} THEN Null
  ELSE LET at   == SetMax(IndexesOf(email, "@"))
           rest == SubSeq(email, at + 1, Len(email))
       IN  IF \E j \in 2..(Len(rest) - 1) : rest[j] = "."
           THEN ToLowerCase(rest) ELSE Null

\* (mutant) the address is lower-cased but not trimmed
NormalizeNoTrim(raw) == ToLowerCase(raw)

\* const normalizedEmail = email.toLowerCase().trim()
Normalize(raw) == Trim(ToLowerCase(raw))

\* String.prototype.split(sep) for a one-character separator
RECURSIVE Split(_, _)
Split(s, sep) ==
  IF IndexesOf(s, sep) = {} THEN <<s>>
  ELSE LET i == SetMin(IndexesOf(s, sep))
       IN  <<SubSeq(s, 1, i - 1)>> \o Split(SubSeq(s, i + 1, Len(s)), sep)

\* String.prototype.charAt(0): the empty string for the empty string
CharAt0(s) == IF s = <<>> THEN <<>> ELSE <<s[1]>>

\* String.prototype.substring(0, 2)
Substring02(s) == SubSeq(s, 1, IF Len(s) < 2 THEN Len(s) ELSE 2)

(***************************************************************************)
(* Results of operations that can throw                                    *)
(***************************************************************************)
NoDesc == [url |-> <<>>, type |-> "none", domain |-> Null, size |-> 0, email |-> <<>>]

Ok(v)  == [ok |-> TRUE, val |-> v, err |-> ""]
Err(e) == [ok |-> FALSE, val |-> NoDesc, err |-> e]

(***************************************************************************)
(* Settings                                                                *)
(***************************************************************************)
DefaultMaxCacheSize == 200
DefaultCacheExpiry == 86400000
DefaultAvatarSize == 32

\* this.settings as the constructor sets it
DefaultSettings ==
  [ maxCacheSize        |-> DefaultMaxCacheSize,
    cacheExpiry         |-> DefaultCacheExpiry,
    avatarSize          |-> DefaultAvatarSize,
    enableFavicon       |-> TRUE,
    enableLogoAPI       |-> TRUE,
    enableGoogleFavicon |-> TRUE ]

\* (mutant) the keys of base win over those of over
MergeBaseWins(base, over) ==
  [k \in (DOMAIN base) \cup (DOMAIN over) |->
     IF k \in DOMAIN base THEN base[k] ELSE over[k]]

\* { ...base, ...over }
Merge(base, over) ==
  [k \in (DOMAIN base) \cup (DOMAIN over) |->
     IF k \in DOMAIN over THEN over[k] ELSE base[k]]

(***************************************************************************)
(* Generated initials (the terminal stage)                                 *)
(***************************************************************************)
\* parts.slice(0, 2).map(part => part.charAt(0).toUpperCase()).join('')
FirstLetters(parts) ==
  ToUpperCase(CharAt0(parts[1]))
    \o (IF Len(parts) >= 2 THEN ToUpperCase(CharAt0(parts[2])) ELSE <<>>)

\* (mutant) the local part is tested for '-' before '.'
generateBusinessInitialsHyphenFirst(email) ==
  LET localPart == Split(email, "@")[1]
  IN  IF IndexesOf(localPart, "-") # {} THEN FirstLetters(Split(localPart, "-"))
      ELSE IF IndexesOf(localPart, ".") # {} THEN FirstLetters(Split(localPart, "."))
      ELSE IF Len(localPart) >= 2 THEN ToUpperCase(Substring02(localPart))
      ELSE LET u == ToUpperCase(CharAt0(localPart)) IN u \o u

\* generateBusinessInitials(email)
generateBusinessInitials(email) ==
  LET localPart == Split(email, "@")[1]
  IN  IF IndexesOf(localPart, ".") # {} THEN FirstLetters(Split(localPart, "."))
      ELSE IF IndexesOf(localPart, "-") # {} THEN FirstLetters(Split(localPart, "-"))
      ELSE IF Len(localPart) >= 2 THEN ToUpperCase(Substring02(localPart))
      ELSE LET u == ToUpperCase(CharAt0(localPart)) IN u \o u

colorSchemes ==
  << [primary |-> "#1e40af", secondary |-> "#3b82f6", border |-> "#1d4ed8"],
     [primary |-> "#047857", secondary |-> "#10b981", border |-> "#059669"],
     [primary |-> "#7c2d12", secondary |-> "#ea580c", border |-> "#c2410c"],
     [primary |-> "#581c87", secondary |-> "#8b5cf6", border |-> "#7c3aed"],
     [primary |-> "#374151", secondary |-> "#6b7280", border |-> "#4b5563"],
     [primary |-> "#b91c1c", secondary |-> "#ef4444", border |-> "#dc2626"],
     [primary |-> "#0f766e", secondary |-> "#14b8a6", border |-> "#0d9488"],
     [primary |-> "#92400e", secondary |-> "#f59e0b", border |-> "#d97706"] >>

\* The 32-bit hash, kept as two 16-bit halves <<hi, lo>> of its two's-complement
\* bit pattern:  hash = ((hash << 5) - hash) + char;  hash = hash & hash
HashStep(h, code) ==
  LET lo == 31 * h[2] + code
      hi == 31 * h[1] + (lo \div 65536)
  IN  <<hi % 65536, lo % 65536>>

RECURSIVE HashFrom(_, _)
HashFrom(h, s) == IF s = <<>> THEN h ELSE HashFrom(HashStep(h, CharCode(Head(s))), Tail(s))

\* (mutant) the absolute value of a negative hash is taken as its bitwise
\* complement, 2^32 - 1 - (65536 * hi + lo)
AbsModOnesComplement(h, n) ==
  IF h[1] >= 32768
    THEN (((65535 - h[2]) % n) + (65536 % n) * ((65535 - h[1]) % n)) % n
    ELSE ((h[2] % n) + (65536 % n) * (h[1] % n)) % n

\* Math.abs(hash) % colorSchemes.length, for the bit pattern h
\* (a negative hash has the absolute value 2^32 - (65536 * hi + lo); the sums are
\* reduced modulo n term by term)
AbsMod(h, n) ==
  IF h[1] >= 32768
    THEN (((65536 - h[2]) % n) + (65536 % n) * ((65535 - h[1]) % n)) % n
    ELSE ((h[2] % n) + (65536 % n) * (h[1] % n)) % n

\* const input = domain || email || 'default': getBusinessColors has the one
\* parameter domain, and no variable email is in scope, so evaluating the
\* second operand throws a ReferenceError
getBusinessColors(domain) ==
  IF domain # Null
    THEN Ok(colorSchemes[AbsMod(HashFrom(<<0, 0>>, domain), Len(colorSchemes)) + 1])
    ELSE [ok |-> FALSE, val |-> colorSchemes[1], err |-> "ReferenceError"]

\* btoa(svg): the encoding of the markup, which is ASCII but for the initials
\* put into it; btoa throws on a character outside Latin-1
Btoa(svg) ==
  IF \A i \in 1..Len(svg.initials) : IsLatin1(svg.initials[i])
    THEN [ok |-> TRUE, err |-> "",
          val |-> <<"base64(", ToString(svg.size), svg.colors.primary,
                    svg.colors.secondary, svg.colors.border>>
                  \o svg.initials \o <<")">>]
    ELSE [ok |-> FALSE, val |-> <<>>, err |-> "InvalidCharacterError"]

createBusinessInitials(email, domain, s) ==
  LET initials == generateBusinessInitials(email)
      colors   == getBusinessColors(domain)
      svg      == [size |-> s.avatarSize, colors |-> colors.val, initials |-> initials]
      b64      == Btoa(svg)
  IN  IF ~colors.ok THEN Err(colors.err)
      ELSE IF ~b64.ok THEN Err(b64.err)
      ELSE Ok([ url      |-> <<"data:image/svg+xml;base64,">> \o b64.val,
                type     |-> "business-initials",
                domain   |-> domain,
                size     |-> s.avatarSize,
                email    |-> email,
                initials |-> initials ])

(***************************************************************************)
(* The source chain                                                        *)
(***************************************************************************)
\* what a HEAD request can come back with
ProbeOutcomes == {"image", "nonimage", "status", "neterr"}

\* validateImageUrl: true only for a 2xx response with an image content type;
\* a network error is caught and gives false
validateImageUrl(r) == r = "image"

\* getCompanyLogo's own HEAD request: the URL is returned for a 2xx image
\* response; anything else throws (a network error rejects the fetch)
LogoFound(r) == r = "image"

GmailCom == <<"g", "m", "a", "i", "l", ".", "c", "o", "m">>

\* (mutant) the table of known favicons is empty
getKnownBusinessFaviconNone(domain) == <<>>

\* knownFavicons[domain] (undefined, here <<>>, for a domain not in the table)
getKnownBusinessFavicon(domain) ==
  IF domain = GmailCom
    THEN <<"https://ssl.gstatic.com/ui/v1/icons/mail/rfr/gmail.ico">>
    ELSE <<>>

\* the candidate locations getFaviconUrl tries, in order
faviconUrls(domain) ==
  << <<"https://">> \o domain \o <<"/favicon.ico">>,
     <<"https://www.">> \o domain \o <<"/favicon.ico">>,
     <<"https://">> \o domain \o <<"/assets/favicon.ico">>,
     <<"https://">> \o domain \o <<"/images/favicon.ico">>,
     <<"https://">> \o domain \o <<"/favicon.png">>,
     <<"https://">> \o domain \o <<"/apple-touch-icon.png">> >>

clearbitUrl(domain) == <<"https://logo.clearbit.com/">> \o domain

\* `...?domain=${domain}&sz=${size}`: a null domain is written as "null"
googleFaviconUrl(domain, size) ==
  <<"https://www.google.com/s2/favicons?domain=">>
    \o (IF domain = Null THEN <<"n", "u", "l", "l">> ELSE domain)
    \o <<"&sz=", ToString(size)>>

\* (mutant) the descriptor of a validated URL carries no domain
DescriptorNoDomain(url, type, t, s) ==
  [url |-> url, type |-> type, domain |-> Null, size |-> s.avatarSize, email |-> t.email]

\* { url, type, domain, size: this.settings.avatarSize, email }
Descriptor(url, type, t, s) ==
  [url |-> url, type |-> type, domain |-> t.domain, size |-> s.avatarSize, email |-> t.email]

\* A resolution (one call of fetchAvatar) that waits for the response to the
\* HEAD request for t.url, issued at pos:
\*   "favCand"   validateImageUrl(url) in getFaviconUrl's loop, candidate t.idx
\*   "favCheck"  validateImageUrl(faviconUrl) in getBusinessAvatar
\*   "logoHead"  fetch(clearbitUrl) in getCompanyLogo
\*   "logoCheck" validateImageUrl(logoUrl) in getBusinessAvatar
\*   "google"    validateImageUrl(googleFaviconUrl) in getBusinessAvatar
\* joiners counts the getAvatar calls that were handed its promise from the
\* pending table.  A step of a resolution gives: done, whether it has settled;
\* res, what it settled with; probe, the URL it requested in this step (<<>>
\* for none); task, the resolution afterwards.
Suspend(t, pos, idx, url) ==
  [ done |-> FALSE, res |-> Err(""), probe |-> url,
    task |-> [t EXCEPT !.pos = pos, !.idx = idx, !.url = url] ]

Finish(t, res) == [done |-> TRUE, res |-> res, probe |-> <<>>, task |-> t]

\* Fallback: Enhanced business initials
EnterInitials(t, s) == Finish(t, createBusinessInitials(t.email, t.domain, s))

\* Priority 3: Google favicon service
EnterGoogle(t, s) ==
  IF s.enableGoogleFavicon
    THEN Suspend(t, "google", 0, googleFaviconUrl(t.domain, s.avatarSize))
    ELSE EnterInitials(t, s)

\* (mutant) the logo stage is entered whether or not it is enabled
EnterLogoAlways(t, s) ==
  IF t.domain # Null
    THEN Suspend(t, "logoHead", 0, clearbitUrl(t.domain))
    ELSE EnterGoogle(t, s)

\* Priority 2: Logo APIs (getCompanyLogo throws for a null domain; the stage's
\* try/catch takes it)
EnterLogo(t, s) ==
  IF s.enableLogoAPI /\ t.domain # Null
    THEN Suspend(t, "logoHead", 0, clearbitUrl(t.domain))
    ELSE EnterGoogle(t, s)

\* Priority 1: Company favicon (getFaviconUrl throws for a null domain, returns
\* a known favicon without a request, and otherwise starts on the candidates)
EnterFavicon(t, s) ==
  IF s.enableFavicon /\ t.domain # Null
    THEN IF getKnownBusinessFavicon(t.domain) # <<>>
           THEN Suspend(t, "favCheck", 0, getKnownBusinessFavicon(t.domain))
           ELSE Suspend(t, "favCand", 1, faviconUrls(t.domain)[1])
    ELSE EnterLogo(t, s)

NewTask(id, email) ==
  [ id |-> id, email |-> email, domain |-> extractDomain(email),
    pos |-> "start", idx |-> 0, url |-> <<>>, joiners |-> 0 ]

\* fetchAvatar(email) = getBusinessAvatar(email), up to its first request
getBusinessAvatar(id, email, s) == EnterFavicon(NewTask(id, email), s)

\* the resolution t goes on when its request is answered with r, under the
\* settings s of that moment
OnResponse(t, r, s) ==
  CASE t.pos = "favCand" ->
         IF validateImageUrl(r) THEN Suspend(t, "favCheck", t.idx, t.url)
         ELSE IF t.idx < Len(faviconUrls(t.domain))
           THEN Suspend(t, "favCand", t.idx + 1, faviconUrls(t.domain)[t.idx + 1])
         ELSE EnterLogo(t, s)
    [] t.pos = "favCheck" ->
         IF validateImageUrl(r) THEN Finish(t, Ok(Descriptor(t.url, "favicon", t, s)))
         ELSE EnterLogo(t, s)
    [] t.pos = "logoHead" ->
         IF LogoFound(r) THEN Suspend(t, "logoCheck", 0, t.url)
         ELSE EnterGoogle(t, s)
    [] t.pos = "logoCheck" ->
         IF validateImageUrl(r) THEN Finish(t, Ok(Descriptor(t.url, "company-logo", t, s)))
         ELSE EnterGoogle(t, s)
    [] t.pos = "google" ->
         IF validateImageUrl(r) THEN Finish(t, Ok(Descriptor(t.url, "google-favicon", t, s)))
         ELSE EnterInitials(t, s)

(***************************************************************************)
(* The cache: a Map, kept as the sequence of its entries in insertion      *)
(* order (the order Map.prototype.keys() iterates in)                      *)
(***************************************************************************)
MapHas(c, k) == \E i \in 1..Len(c) : c[i].key = k

MapIndex(c, k) == CHOOSE i \in 1..Len(c) : c[i].key = k

\* (mutant) the lookup answers with the oldest entry
MapGetFirst(c, k) == c[1]

\* Map.prototype.get, for a key the map has
MapGet(c, k) == c[MapIndex(c, k)]

\* Map.prototype.delete
MapDelete(c, k) == SelectSeq(c, LAMBDA e : e.key # k)

\* Map.prototype.set: a key the map already has keeps its place in the order
MapSet(c, k, e) ==
  IF MapHas(c, k) THEN [c EXCEPT ![MapIndex(c, k)] = e] ELSE Append(c, e)

MapKeys(c) == {c[i].key : i \in 1..Len(c)}

\* (mutant) an entry never expires
IsFreshForever(c, k, t, s) == MapHas(c, k)

\* cached && Date.now() - cached.timestamp < this.settings.cacheExpiry
IsFresh(c, k, t, s) == MapHas(c, k) /\ t - MapGet(c, k).timestamp < s.cacheExpiry

\* (mutant) the capacity test is > where the code has >=
cacheAvatarOffByOne(c, email, data, t, s) ==
  LET c1 == IF Len(c) > s.maxCacheSize /\ c # <<>> THEN MapDelete(c, c[1].key) ELSE c
  IN  MapSet(c1, email, [key |-> email, data |-> data, timestamp |-> t])

\* cacheAvatar(email, data) at time t
cacheAvatar(c, email, data, t, s) ==
  LET c1 == IF Len(c) >= s.maxCacheSize /\ c # <<>> THEN MapDelete(c, c[1].key) ELSE c
  IN  MapSet(c1, email, [key |-> email, data |-> data, timestamp |-> t])

\* (mutant) the loop stops after the first entry it deletes
cleanCacheFirstOnly(c, t, s) ==
  LET ex == {i \in 1..Len(c) : t - c[i].timestamp > s.cacheExpiry}
  IN  IF ex = {} THEN c ELSE MapDelete(c, c[SetMin(ex)].key)

\* cleanCache() at time t
cleanCache(c, t, s) == SelectSeq(c, LAMBDA e : ~(t - e.timestamp > s.cacheExpiry))

\* getCacheStats(): maxSize is settings.maxCacheSize || 200
getCacheStats(c, s) ==
  [ size     |-> Len(c),
    maxSize  |-> IF s.maxCacheSize # 0 THEN s.maxCacheSize ELSE DefaultMaxCacheSize,
    settings |-> s ]

(***************************************************************************)
(* State                                                                   *)
(***************************************************************************)
VARIABLES
  cache,            \* this.cache
  pendingRequests,  \* this.pendingRequests: normalized address -> resolution id
  tasks,            \* the resolutions (fetchAvatar calls) in flight
  settings,         \* this.settings
  storage,          \* the blob under 'avatarSettings' in browser.storage.local
  now,              \* Date.now()
  callsLeft,        \* getAvatar calls still to be issued
  updatesLeft,      \* updateSettings calls still to be issued
  last,             \* what the latest operation did and returned
  writes,           \* the browser.storage.local.set calls not yet completed,
                    \* oldest first: the blob each one writes
  thunderbirdInjector,  \* the ThunderbirdInjector of the background script:
                    \* injectedTabs, its injectIntoTab calls in progress, and what
                    \* has been injected into each tab
  avatarInjector,   \* the AvatarCardInjector of the content script: activeCards,
                    \* its createAvatarCard calls in progress, and the cards in
                    \* the document
  recency,          \* history: the cached addresses, least recently used first
  resolved          \* history: for each cached address, the descriptor that the
                    \* resolution which cached it returned to its caller

vars == <<cache, pendingRequests, tasks, settings, storage, now, callsLeft,
          updatesLeft, last, writes, thunderbirdInjector, avatarInjector,
          recency, resolved>>

\* the state of the avatar manager
managerVars == <<cache, pendingRequests, tasks, settings, storage, now, callsLeft,
                 updatesLeft, writes, recency, resolved>>

\* the state outside the avatar manager
scriptVars == <<thunderbirdInjector, avatarInjector>>

\* the message types handleMessage has a case for
KnownTypes == {"getAvatar", "updateSettings", "clearCache", "getCacheStats"}

\* message.type of a message that carries its request name in the property
\* m.field
MessageType(m) == IF m.field = "type" THEN m.name ELSE "undefined"

\* the property of the response that holds the result of a request of a type
ResultKey(type) ==
  CASE type = "getAvatar"      -> "avatar"
    [] type = "updateSettings" -> "settings"
    [] type = "clearCache"     -> "result"
    [] type = "getCacheStats"  -> "stats"

\* (mutant) a rejected operation is answered like a successful one
handleMessageHidesErrors(type, res) ==
  IF type \notin KnownTypes
    THEN [success |-> FALSE, key |-> "error", error |-> "Unknown message type"]
    ELSE [success |-> TRUE, key |-> ResultKey(type), error |-> ""]

\* what handleMessage passes to sendResponse for a message of a type whose
\* operation has settled with res
handleMessage(type, res) ==
  IF type \notin KnownTypes
    THEN [success |-> FALSE, key |-> "error", error |-> "Unknown message type"]
  ELSE IF ~res.ok
    THEN [success |-> FALSE, key |-> "error", error |-> res.err]
    ELSE [success |-> TRUE, key |-> ResultKey(type), error |-> ""]

NoTask == NewTask(0, <<>>)

\* the observation of an operation that is no getAvatar call and settles nothing
Quiet(op) ==
  [ op |-> op, raw |-> <<>>, key |-> <<>>, ret |-> "none", hit |-> NoDesc,
    started |-> FALSE, probe |-> <<>>, settled |-> FALSE, task |-> NoTask,
    owner |-> Err(""), joiner |-> Err(""), before |-> <<>>, evicted |-> <<>>,
    lru |-> <<>>, stats |-> [size |-> 0, maxSize |-> 0], replies |-> <<>>,
    msg |-> [field |-> "", name |-> ""] ]

\* the entries of c whose address c2 no longer holds
Dropped(c, c2) == SelectSeq(c, LAMBDA e : ~MapHas(c2, e.key))

\* the recency order without the addresses c2 does not hold
Kept(rec, c2) == SelectSeq(rec, LAMBDA k : MapHas(c2, k))

\* address k becomes the most recently used
Touch(rec, k) == Append(SelectSeq(rec, LAMBDA x : x # k), k)

\* the history brought up to date with the cache c2 after entries were removed
Forget(c2) ==
  /\ recency' = Kept(recency, c2)
  /\ resolved' = [k \in MapKeys(c2) |-> resolved[k]]

(***************************************************************************)
(* ThunderbirdInjector (background script)                                 *)
(***************************************************************************)
MaxTabEvents == 2

\* the tabs, all of them showing a Thunderbird URL
TabIds == {1, 2}

\* new ThunderbirdInjector(): no tab injected, no call in progress, nothing
\* injected into any tab, with MaxTabEvents tab events and the scan of the
\* existing tabs to come
NewThunderbirdInjector ==
  [ injectedTabs |-> {},
    calls        |-> {},
    injected     |-> [tab \in TabIds |-> [css |-> 0, content |-> 0, integration |-> 0]],
    eventsLeft   |-> MaxTabEvents,
    scanned      |-> FALSE ]

(***************************************************************************)
(* AvatarCardInjector (content script)                                     *)
(***************************************************************************)
MaxScans == 2

\* the target elements of the document: element 1 matches two of the
\* selectors of scanForEmails (such as '.thread-row .sender' and '.sender'),
\* element 2 matches one, element 3 is found by the scan of the text only
Elements == {1, 2, 3}

\* the elements in the order the selectors of scanForEmails yield them
SelectorMatches == <<1, 2, 1>>

\* the parents scanTextForEmails finds for the addresses in the text
TextParents == <<3>>

\* new AvatarCardInjector() once startObserving is due: no active card, no
\* createAvatarCard call in progress or made, no card in the document, with
\* MaxScans scans or batches to come
NewAvatarCardInjector ==
  [ activeCards |-> <<>>,
    calls       |-> {},
    cards       |-> {},
    issued      |-> 0,
    scansLeft   |-> MaxScans,
    destroyed   |-> FALSE ]

\* The state once init() has merged the stored blob over the defaults, with
\* calls getAvatar calls and updates updateSettings calls to come.
InitWith(blob, calls, updates) ==
  /\ cache = <<>>
  /\ pendingRequests = <<>>
  /\ tasks = {}
  /\ storage = blob
  /\ settings = Merge(DefaultSettings, blob)
  /\ now = 0
  /\ callsLeft = calls
  /\ updatesLeft = updates
  /\ last = Quiet("init")
  /\ writes = <<>>
  /\ thunderbirdInjector = NewThunderbirdInjector
  /\ avatarInjector = NewAvatarCardInjector
  /\ recency = <<>>
  /\ resolved = <<>>

(***************************************************************************)
(* getAvatar                                                               *)
(***************************************************************************)
\* (mutant) the pending table is not consulted
PendingHasNever(p, k) == FALSE

\* this.pendingRequests.has(normalizedEmail)
PendingHas(p, k) == k \in DOMAIN p

\* this.pendingRequests.set(k, promise of resolution id)
PendingSet(p, k, id) == [x \in (DOMAIN p) \cup {k} |-> IF x = k THEN id ELSE p[x]]

\* (mutant) the finally block leaves the pending table as it is
PendingDeleteNothing(p, k) == p

\* this.pendingRequests.delete(k)
PendingDelete(p, k) == [x \in (DOMAIN p) \ {k} |-> p[x]]

FreshId == SetMin((1..(Cardinality(tasks) + 1)) \ {t.id : t \in tasks})

\* what the call that started the resolution returns: result, after
\* this.cacheAvatar(normalizedEmail, result); a rejection passes through finally
OwnerOutcome(res) == res

\* (mutant) a joined call is answered with the initials whatever the
\* resolution settles with
JoinerGetsInitials(res) ==
  Ok([NoDesc EXCEPT !.type = "business-initials"])

\* what a call that returned the pending promise settles with
JoinerOutcome(res) == res

\* (mutant) the owner caches whatever the resolution settled with, a failure
\* included
CacheAfterSettleAlways(c, email, res, t, s) == cacheAvatar(c, email, res.val, t, s)

\* the cache after the owner's `await promise` continues with res
CacheAfterSettle(c, email, res, t, s) ==
  IF res.ok THEN cacheAvatar(c, email, res.val, t, s) ELSE c

\* The resolution t has settled with res: the owner's continuation caches a
\* result and its finally block deletes the pending entry; the joined calls
\* settle with the same promise.
Settle(t, res, pend, obs) ==
  /\ cache' = CacheAfterSettle(cache, t.email, res, now, settings)
  /\ pendingRequests' = PendingDelete(pend, t.email)
  /\ tasks' = tasks \ {u \in tasks : u.id = t.id}
  /\ last' = [obs EXCEPT !.settled = TRUE, !.task = t, !.before = cache,
                         !.evicted = Dropped(cache, cache'),
                         !.lru = IF recency = <<>> THEN <<>> ELSE recency[1],
                         !.owner = OwnerOutcome(res), !.joiner = JoinerOutcome(res),
                         !.replies = <<handleMessage("getAvatar", OwnerOutcome(res))>> \o
                                     [i \in 1..t.joiners |->
                                        handleMessage("getAvatar", JoinerOutcome(res))]]
  /\ recency' = IF res.ok THEN Touch(Kept(recency, cache'), t.email) ELSE recency
  /\ resolved' = IF res.ok
                   THEN [k \in MapKeys(cache') |->
                           IF k = t.email THEN OwnerOutcome(res).val ELSE resolved[k]]
                   ELSE resolved

\* (mutant) no address is refused
IsFalsyNever(email) == FALSE

\* !email, for null, undefined and the empty string (all three are <<>> here)
IsFalsy(email) == email = <<>>

GetAvatar(raw) ==
  /\ callsLeft > 0
  /\ callsLeft' = callsLeft - 1
  /\ UNCHANGED <<settings, storage, now, updatesLeft, writes, scriptVars>>
  /\ \E key \in {Normalize(raw)} :
       LET obs == [Quiet("getAvatar") EXCEPT !.raw = raw, !.key = key, !.before = cache]
       IN  IF IsFalsy(raw)
             THEN \* if (!email) return null
                  /\ last' = [obs EXCEPT !.ret = "null",
                                          !.replies = <<handleMessage("getAvatar", Ok(NoDesc))>>]
                  /\ UNCHANGED <<cache, pendingRequests, tasks, recency, resolved>>
           ELSE IF IsFresh(cache, key, now, settings)
             THEN \* return cached.data
                  /\ last' = [obs EXCEPT !.ret = "hit", !.hit = MapGet(cache, key).data,
                                          !.replies = <<handleMessage("getAvatar", Ok(MapGet(cache, key).data))>>]
                  /\ recency' = Touch(recency, key)
                  /\ UNCHANGED <<cache, pendingRequests, tasks, resolved>>
           ELSE IF PendingHas(pendingRequests, key)
             THEN \* return this.pendingRequests.get(normalizedEmail)
                  /\ tasks' = {IF t.id = pendingRequests[key]
                                 THEN [t EXCEPT !.joiners = @ + 1] ELSE t : t \in tasks}
                  /\ last' = [obs EXCEPT !.ret = "join"]
                  /\ UNCHANGED <<cache, pendingRequests, recency, resolved>>
           ELSE \* const promise = this.fetchAvatar(normalizedEmail)
                \E run \in {getBusinessAvatar(FreshId, key, settings)} :
                  LET pend == PendingSet(pendingRequests, key, run.task.id)
                      o    == [obs EXCEPT !.ret = "start", !.started = TRUE,
                                          !.probe = run.probe, !.task = run.task]
                  IN  IF run.done
                        THEN Settle(run.task, run.res, pend, o)
                        ELSE /\ tasks' = tasks \cup {run.task}
                             /\ pendingRequests' = pend
                             /\ last' = o
                             /\ UNCHANGED <<cache, recency, resolved>>

\* the request of resolution t is answered with r
ProbeRespond(t, r) ==
  /\ t \in tasks
  /\ UNCHANGED <<settings, storage, now, callsLeft, updatesLeft, writes, scriptVars>>
  /\ \E run \in {OnResponse(t, r, settings)} :
       LET obs == [Quiet("respond") EXCEPT !.key = t.email, !.probe = run.probe,
                                           !.task = run.task, !.before = cache]
       IN  IF run.done
             THEN Settle(run.task, run.res, pendingRequests, obs)
             ELSE /\ tasks' = (tasks \ {t}) \cup {run.task}
                  /\ last' = obs
                  /\ UNCHANGED <<cache, pendingRequests, recency, resolved>>

(***************************************************************************)
(* Maintenance, settings, time                                             *)
(***************************************************************************)
\* (mutant) cleanCache empties the pending table as well
CleanCacheAndPending ==
  /\ cache' = cleanCache(cache, now, settings)
  /\ pendingRequests' = <<>>
  /\ last' = [Quiet("cleanCache") EXCEPT !.before = cache,
                                          !.evicted = Dropped(cache, cache')]
  /\ Forget(cache')
  /\ UNCHANGED <<tasks, settings, storage, now, callsLeft, updatesLeft, writes, scriptVars>>

\* setInterval(() => this.cleanCache(), ...)
CleanCache ==
  /\ cache' = cleanCache(cache, now, settings)
  /\ last' = [Quiet("cleanCache") EXCEPT !.before = cache,
                                          !.evicted = Dropped(cache, cache')]
  /\ Forget(cache')
  /\ UNCHANGED <<pendingRequests, tasks, settings, storage, now, callsLeft, updatesLeft, writes, scriptVars>>

\* (mutant) clearCache empties the pending table as well
ClearCacheAndPending ==
  /\ cache' = <<>>
  /\ pendingRequests' = <<>>
  /\ last' = [Quiet("clearCache") EXCEPT !.before = cache, !.evicted = cache,
                                          !.replies = <<handleMessage("clearCache", Ok(NoDesc))>>]
  /\ Forget(cache')
  /\ UNCHANGED <<tasks, settings, storage, now, callsLeft, updatesLeft, writes, scriptVars>>

\* clearCache(): this.cache.clear()
ClearCache ==
  /\ cache' = <<>>
  /\ last' = [Quiet("clearCache") EXCEPT !.before = cache, !.evicted = cache,
                                          !.replies = <<handleMessage("clearCache", Ok(NoDesc))>>]
  /\ Forget(cache')
  /\ UNCHANGED <<pendingRequests, tasks, settings, storage, now, callsLeft, updatesLeft, writes, scriptVars>>

\* the settings objects updateSettings is called with
SettingsInputs ==
  { [enableFavicon |-> FALSE],
    [enableFavicon |-> FALSE, enableLogoAPI |-> FALSE, enableGoogleFavicon |-> FALSE],
    [avatarSize |-> 64],
    [maxCacheSize |-> 1] }

\* (mutant) updateSettings cuts the cache down to the new maxCacheSize, oldest
\* entries first
UpdateSettingsTrimsCache(newSettings, stored) ==
  /\ updatesLeft > 0
  /\ updatesLeft' = updatesLeft - 1
  /\ settings' = Merge(settings, newSettings)
  /\ storage' = IF stored THEN settings' ELSE storage
  /\ last' = [Quiet("updateSettings") EXCEPT
                !.replies = <<handleMessage("updateSettings",
                                            IF stored THEN Ok(NoDesc) ELSE Err("storage"))>>]
  /\ cache' = IF Len(cache) > settings'.maxCacheSize
                THEN SubSeq(cache, Len(cache) - settings'.maxCacheSize + 1, Len(cache))
                ELSE cache
  /\ Forget(cache')
  /\ UNCHANGED <<pendingRequests, tasks, now, callsLeft, writes, scriptVars>>

\* updateSettings(newSettings) up to its await: the settings are replaced and
\* browser.storage.local.set is called with them
UpdateSettingsCall(newSettings) ==
  /\ updatesLeft > 0
  /\ updatesLeft' = updatesLeft - 1
  /\ settings' = Merge(settings, newSettings)
  /\ writes' = Append(writes, settings')
  /\ last' = Quiet("updateSettings")
  /\ UNCHANGED <<cache, pendingRequests, tasks, storage, now, callsLeft, recency, resolved, scriptVars>>

\* the oldest browser.storage.local.set call completes, with the blob stored
\* (stored) or with a rejection; updateSettings then returns this.settings or
\* rejects
StorageSet(stored) ==
  /\ writes # <<>>
  /\ storage' = IF stored THEN Head(writes) ELSE storage
  /\ writes' = Tail(writes)
  /\ last' = [Quiet(IF stored THEN "storageSet" ELSE "storageSetFailed") EXCEPT
                !.replies = <<handleMessage("updateSettings",
                                            IF stored THEN Ok(NoDesc) ELSE Err("storage"))>>]
  /\ UNCHANGED <<cache, pendingRequests, tasks, settings, now, callsLeft, updatesLeft,
                 recency, resolved, scriptVars>>

\* handleMessage({type: 'getCacheStats'})
GetCacheStats ==
  /\ last' = [Quiet("getCacheStats") EXCEPT
                !.stats = [size    |-> getCacheStats(cache, settings).size,
                           maxSize |-> getCacheStats(cache, settings).maxSize],
                !.replies = <<handleMessage("getCacheStats", Ok(NoDesc))>>]
  /\ UNCHANGED <<cache, pendingRequests, tasks, settings, storage, now, callsLeft,
                 updatesLeft, writes, recency, resolved, scriptVars>>

\* handleMessage(m) for a message whose type no case matches: the default
\* branch answers and nothing else happens
UnknownMessage(m) ==
  /\ MessageType(m) \notin KnownTypes
  /\ last' = [Quiet("unknown") EXCEPT
                !.msg = m, !.replies = <<handleMessage(MessageType(m), Ok(NoDesc))>>]
  /\ UNCHANGED <<cache, pendingRequests, tasks, settings, storage, now, callsLeft,
                 updatesLeft, writes, recency, resolved, scriptVars>>

\* updateSettings(newSettings) with the completion of its write, nothing
\* running in between; stored tells whether browser.storage.local.set succeeds
UpdateSettings(newSettings, stored) ==
  /\ updatesLeft > 0
  /\ updatesLeft' = updatesLeft - 1
  /\ settings' = Merge(settings, newSettings)
  /\ storage' = IF stored THEN settings' ELSE storage
  /\ last' = [Quiet("updateSettings") EXCEPT
                !.replies = <<handleMessage("updateSettings",
                                            IF stored THEN Ok(NoDesc) ELSE Err("storage"))>>]
  /\ UNCHANGED <<cache, pendingRequests, tasks, now, callsLeft, writes, recency, resolved, scriptVars>>

Tick ==
  /\ now < MaxTime
  /\ now' = now + 1
  /\ last' = Quiet("tick")
  /\ UNCHANGED <<cache, pendingRequests, tasks, settings, storage, callsLeft,
                 updatesLeft, writes, recency, resolved, scriptVars>>

(***************************************************************************)
(* ThunderbirdInjector: tab events and injection                           *)
(***************************************************************************)
\* An injector call in progress waits for a tabs API call at pos:
\*   "get"          browser.tabs.get in handleTabActivated
\*   "query"        browser.tabs.query in injectIntoExistingTabs
\*   "css"          browser.tabs.insertCSS in injectIntoTab
\*   "content"      browser.tabs.executeScript of the content script
\*   "integration"  browser.tabs.executeScript of the integration script
\* rest holds the tabs injectIntoExistingTabs has still to go through.
InjectorCall(id, tab, pos, rest) == [id |-> id, tab |-> tab, pos |-> pos, rest |-> rest]

FreshCallId(inj) == SetMin((1..(Cardinality(inj.calls) + 1)) \ {c.id : c \in inj.calls})

\* injectIntoTab for the tabs in turn, up to the first await: a tab in
\* injectedTabs is passed over, for the first other tab insertCSS is called
RECURSIVE injectIntoTabs(_, _)
injectIntoTabs(inj, tabs) ==
  IF tabs = <<>> THEN inj
  ELSE IF Head(tabs) \in inj.injectedTabs THEN injectIntoTabs(inj, Tail(tabs))
  ELSE [inj EXCEPT !.calls = @ \cup {InjectorCall(FreshCallId(inj), Head(tabs), "css",
                                                  Tail(tabs))}]

\* handleTabUpdated(tab, {status: 'complete'}, ...)
HandleTabUpdated(tab) ==
  /\ thunderbirdInjector.eventsLeft > 0
  /\ thunderbirdInjector' =
       injectIntoTabs([thunderbirdInjector EXCEPT !.eventsLeft = @ - 1], <<tab>>)
  /\ last' = Quiet("tabUpdated")
  /\ UNCHANGED <<managerVars, avatarInjector>>

\* handleTabActivated({tabId: tab}) up to its await of browser.tabs.get
HandleTabActivated(tab) ==
  /\ thunderbirdInjector.eventsLeft > 0
  /\ thunderbirdInjector' =
       [thunderbirdInjector EXCEPT
          !.eventsLeft = @ - 1,
          !.calls = @ \cup {InjectorCall(FreshCallId(thunderbirdInjector), tab, "get", <<>>)}]
  /\ last' = Quiet("tabActivated")
  /\ UNCHANGED <<managerVars, avatarInjector>>

\* setTimeout(() => this.injectIntoExistingTabs(), 1000), up to the await of
\* browser.tabs.query
InjectIntoExistingTabs ==
  /\ ~thunderbirdInjector.scanned
  /\ thunderbirdInjector' =
       [thunderbirdInjector EXCEPT
          !.scanned = TRUE,
          !.calls = @ \cup {InjectorCall(FreshCallId(thunderbirdInjector), 0, "query", <<>>)}]
  /\ last' = Quiet("injectIntoExistingTabs")
  /\ UNCHANGED <<managerVars, avatarInjector>>

\* the tabs browser.tabs.query returns, in some order
TabOrders == { <<1, 2>>, <<2, 1>> }

\* The tabs API call that c waits for returns: it resolves (ok) or rejects.
\* order is what browser.tabs.query resolves with.
TabsApiReturns(c, ok, order) ==
  /\ c \in thunderbirdInjector.calls
  /\ LET inj  == [thunderbirdInjector EXCEPT !.calls = @ \ {c}]
         bump == [inj EXCEPT !.injected[c.tab][c.pos] = @ + 1]
     IN  thunderbirdInjector' =
           CASE c.pos = "get"   -> IF ok THEN injectIntoTabs(inj, <<c.tab>>) ELSE inj
             [] c.pos = "query" -> IF ok THEN injectIntoTabs(inj, order) ELSE inj
             [] c.pos = "css" ->
                  IF ok THEN [bump EXCEPT !.calls = @ \cup
                                {InjectorCall(c.id, c.tab, "content", c.rest)}]
                        ELSE injectIntoTabs(inj, c.rest)
             [] c.pos = "content" ->
                  IF ok THEN [bump EXCEPT !.calls = @ \cup
                                {InjectorCall(c.id, c.tab, "integration", c.rest)}]
                        ELSE injectIntoTabs(inj, c.rest)
             [] c.pos = "integration" ->
                  IF ok THEN injectIntoTabs([bump EXCEPT !.injectedTabs = @ \cup {c.tab}],
                                            c.rest)
                        ELSE injectIntoTabs(inj, c.rest)
  /\ last' = Quiet("tabsApi")
  /\ UNCHANGED <<managerVars, avatarInjector>>

(***************************************************************************)
(* AvatarCardInjector: scans, batches, responses, destroy                  *)
(***************************************************************************)
\* this.activeCards.has(element)
ActiveHas(ai, el) == el \in DOMAIN ai.activeCards

\* processEmailElement(el) for the elements of els in turn: for an element
\* without an active card createAvatarCard is called, which sends its
\* request and suspends at the await
RECURSIVE processEmailElements(_, _)
processEmailElements(ai, els) ==
  IF els = <<>> THEN ai
  ELSE IF ActiveHas(ai, Head(els)) THEN processEmailElements(ai, Tail(els))
  ELSE processEmailElements(
         [ai EXCEPT !.issued = @ + 1,
                    !.calls = @ \cup {[id |-> ai.issued + 1, element |-> Head(els)]}],
         Tail(els))

\* the number of elements of els for which processEmailElement returns true
FoundElements(ai, els) == Cardinality({i \in 1..Len(els) : ~ActiveHas(ai, els[i])})

\* scanForEmails(): the initial scan of startObserving and the scan of the
\* 5-second interval; with nothing found, scanTextForEmails()
ScanForEmails ==
  /\ ~avatarInjector.destroyed
  /\ avatarInjector.scansLeft > 0
  /\ LET ai == [avatarInjector EXCEPT !.scansLeft = @ - 1]
     IN  avatarInjector' =
           IF FoundElements(ai, SelectorMatches) = 0
             THEN processEmailElements(ai, TextParents)
             ELSE processEmailElements(ai, SelectorMatches)
  /\ last' = Quiet("scanForEmails")
  /\ UNCHANGED <<managerVars, thunderbirdInjector>>

\* batchProcessElements([el]) once its animation frame comes: the element the
\* mutation observer collected is processed unless it has an active card
BatchProcessElements(el) ==
  /\ ~avatarInjector.destroyed
  /\ avatarInjector.scansLeft > 0
  /\ avatarInjector' =
       processEmailElements([avatarInjector EXCEPT !.scansLeft = @ - 1], <<el>>)
  /\ last' = Quiet("batchProcessElements")
  /\ UNCHANGED <<managerVars, thunderbirdInjector>>

\* the request of the createAvatarCard call c is answered: with nothing
\* (answered = FALSE) the call returns; otherwise the card is appended to the
\* document and this.activeCards.set(targetElement, {card, ...})
AvatarDataArrives(c, answered) ==
  /\ ~avatarInjector.destroyed
  /\ c \in avatarInjector.calls
  /\ avatarInjector' =
       IF ~answered
         THEN [avatarInjector EXCEPT !.calls = @ \ {c}]
         ELSE [avatarInjector EXCEPT
                 !.calls = @ \ {c},
                 !.cards = @ \cup {[id |-> c.id, element |-> c.element]},
                 !.activeCards = [el \in (DOMAIN @) \cup {c.element} |->
                                    IF el = c.element THEN c.id ELSE @[el]]]
  /\ last' = Quiet("avatarData")
  /\ UNCHANGED <<managerVars, thunderbirdInjector>>

\* destroy(): the cards of activeCards are removed from the document and
\* activeCards is cleared
Destroy ==
  /\ ~avatarInjector.destroyed
  /\ avatarInjector' =
       [avatarInjector EXCEPT
          !.destroyed = TRUE,
          !.cards = {c \in @ : ~\E el \in DOMAIN avatarInjector.activeCards :
                                  avatarInjector.activeCards[el] = c.id},
          !.activeCards = <<>>]
  /\ last' = Quiet("destroy")
  /\ UNCHANGED <<managerVars, thunderbirdInjector>>

(***************************************************************************)
(* Specifications                                                          *)
(***************************************************************************)
\* The manager with a small cache and a short expiry in the stored blob and
\* every stage of the chain enabled, under all its operations.
Addresses ==
  { <<"a", "@", "x", ".", "c">>,
    <<"b", "@", "g", "m", "a", "i", "l", ".", "c", "o", "m">>,
    <<" ", "A", "@", "X", ".", "c", " ">> }

Init == InitWith([maxCacheSize |-> 2, cacheExpiry |-> 2], MaxCalls, MaxUpdates)

Next ==
  \/ \E raw \in Addresses : GetAvatar(raw)
  \/ \E t \in tasks, r \in ProbeOutcomes : ProbeRespond(t, r)
  \/ CleanCache
  \/ ClearCache
  \/ \E ns \in SettingsInputs, stored \in BOOLEAN : UpdateSettings(ns, stored)
  \/ Tick

Spec == Init /\ [][Next]_vars

\* The cache under settings that stay as loaded: the stored blob leaves only
\* the fallback favicon service and the initials in the chain.
CacheAddresses ==
  { <<"a", "@", "x", ".", "c">>,
    <<"b", "@", "x", ".", "c">>,
    <<"c", "@", "x", ".", "c">> }

InitCache ==
  \E m \in {1, 2} :
    InitWith([maxCacheSize |-> m, cacheExpiry |-> 2,
              enableFavicon |-> FALSE, enableLogoAPI |-> FALSE], MaxCacheCalls, 0)

NextCache ==
  \/ \E raw \in CacheAddresses : GetAvatar(raw)
  \/ \E t \in tasks, r \in ProbeOutcomes : ProbeRespond(t, r)
  \/ CleanCache
  \/ ClearCache
  \/ Tick

SpecCache == InitCache /\ [][NextCache]_vars

\* A cache of three entries under settings that stay as loaded: the stored
\* blob disables every stage before the initials, so that no request is ever
\* issued and every resolution settles within the getAvatar call.
EvictAddresses ==
  { <<"a", "@", "x", ".", "c">>,
    <<"b", "@", "x", ".", "c">>,
    <<"c", "@", "x", ".", "c">>,
    <<"e", "@", "x", ".", "c">> }

InitEvict ==
  InitWith([maxCacheSize |-> 3, cacheExpiry |-> 2, enableFavicon |-> FALSE,
            enableLogoAPI |-> FALSE, enableGoogleFavicon |-> FALSE],
           MaxEvictCalls, 0)

NextEvict ==
  \/ \E raw \in EvictAddresses : GetAvatar(raw)
  \/ CleanCache
  \/ ClearCache
  \/ Tick

SpecEvict == InitEvict /\ [][NextEvict]_vars

\* Repeated requests for one address, written in two ways, whose resolution
\* succeeds when a request validates and fails when none does, under all the
\* operations.
JoinAddresses ==
  { <<LSTROKE, "@", "x", ".", "c">>,
    <<" ", USTROKE, "@", "X", ".", "c", " ">> }

InitJoin == InitWith([maxCacheSize |-> 2, cacheExpiry |-> 2], MaxJoinCalls, MaxUpdates)

NextJoin ==
  \/ \E raw \in JoinAddresses : GetAvatar(raw)
  \/ \E t \in tasks, r \in ProbeOutcomes : ProbeRespond(t, r)
  \/ CleanCache
  \/ ClearCache
  \/ \E ns \in SettingsInputs, stored \in BOOLEAN : UpdateSettings(ns, stored)
  \/ Tick

SpecJoin == InitJoin /\ [][NextJoin]_vars

\* One request for an address of any shape, under all the operations.
OddAddresses ==
  { <<"a", "@", "x", ".", "c">>,
    <<"n", "-", "e">>,
    <<"a", "@", "b", "@", "x", ".", "c">>,
    <<"a", "@", "x">>,
    <<LSTROKE, "@", "x", ".", "c">>,
    <<" ">>,
    <<>> }

InitAddr == InitWith([maxCacheSize |-> 2, cacheExpiry |-> 2], MaxAddrCalls, MaxUpdates)

NextAddr ==
  \/ \E raw \in OddAddresses : GetAvatar(raw)
  \/ \E t \in tasks, r \in ProbeOutcomes : ProbeRespond(t, r)
  \/ CleanCache
  \/ ClearCache
  \/ \E ns \in SettingsInputs, stored \in BOOLEAN : UpdateSettings(ns, stored)
  \/ Tick

SpecAddr == InitAddr /\ [][NextAddr]_vars

\* Settings changed while entries are cached and resolutions are in flight:
\* the stored blob leaves the logo stage, the fallback favicon service and the
\* initials in the chain, and updateSettings is called with a change of each
\* kind of key.
SettingsAddresses ==
  { <<"a", "@", "x", ".", "c">>,
    <<"b", "@", "x", ".", "c">> }

SettingsChanges ==
  { [cacheExpiry |-> 1],
    [cacheExpiry |-> 3],
    [maxCacheSize |-> 1],
    [avatarSize |-> 64],
    [enableGoogleFavicon |-> FALSE] }

InitSettings ==
  InitWith([maxCacheSize |-> 2, cacheExpiry |-> 2, enableFavicon |-> FALSE],
           MaxSettingsCalls, MaxUpdates)

NextSettings ==
  \/ \E raw \in SettingsAddresses : GetAvatar(raw)
  \/ \E t \in tasks, r \in ProbeOutcomes : ProbeRespond(t, r)
  \/ CleanCache
  \/ ClearCache
  \/ \E ns \in SettingsChanges, stored \in BOOLEAN : UpdateSettings(ns, stored)
  \/ Tick

SpecSettings == InitSettings /\ [][NextSettings]_vars

\* Settings loaded from each kind of stored blob and then changed by calls
\* of updateSettings whose writes to the storage complete later, in the order
\* they were issued, while one address is resolved.
MaxPersistUpdates == 2

PersistAddresses == { <<"a", "@", "x", ".", "c">> }

PersistBlobs ==
  { [avatarSize |-> 64],
    [maxCacheSize |-> 2, cacheExpiry |-> 2],
    [enableFavicon |-> FALSE, enableLogoAPI |-> FALSE] }

PersistChanges ==
  { [avatarSize |-> 48],
    [maxCacheSize |-> 1],
    [enableFavicon |-> FALSE, enableGoogleFavicon |-> FALSE] }

InitPersist ==
  \E blob \in PersistBlobs : InitWith(blob, MaxAddrCalls, MaxPersistUpdates)

NextPersist ==
  \/ \E raw \in PersistAddresses : GetAvatar(raw)
  \/ \E t \in tasks, r \in ProbeOutcomes : ProbeRespond(t, r)
  \/ \E ns \in PersistChanges : UpdateSettingsCall(ns)
  \/ \E stored \in BOOLEAN : StorageSet(stored)

SpecPersist == InitPersist /\ [][NextPersist]_vars

\* The capacity lowered while the cache is filled: the stored blob disables
\* every stage before the initials, so that every resolution settles within
\* the getAvatar call, and updateSettings is called with a maxCacheSize of 1
\* and of 0; getCacheStats is asked in between.
MaxShrinkCalls == 3

ShrinkAddresses ==
  { <<"a", "@", "x", ".", "c">>,
    <<"b", "@", "x", ".", "c">>,
    <<"c", "@", "x", ".", "c">> }

ShrinkChanges == { [maxCacheSize |-> 1], [maxCacheSize |-> 0] }

InitShrink ==
  InitWith([maxCacheSize |-> 2, cacheExpiry |-> 2, enableFavicon |-> FALSE,
            enableLogoAPI |-> FALSE, enableGoogleFavicon |-> FALSE],
           MaxShrinkCalls, MaxPersistUpdates)

NextShrink ==
  \/ \E raw \in ShrinkAddresses : GetAvatar(raw)
  \/ CleanCache
  \/ ClearCache
  \/ \E ns \in ShrinkChanges : UpdateSettingsCall(ns)
  \/ \E stored \in BOOLEAN : StorageSet(stored)
  \/ GetCacheStats
  \/ Tick

SpecShrink == InitShrink /\ [][NextShrink]_vars

\* The message listener under the messages the content script and the
\* options page send, which name their request in the property `action`, and
\* under messages that name it in the property `type`, one of them of a type
\* no case matches.  The stored blob leaves the fallback favicon service and
\* the initials in the chain; an address whose initials cannot be encoded
\* makes resolutions fail.
MaxMessageCalls == 2

RequestNames == {"getAvatar", "getCacheStats", "updateSettings", "clearCache"}

\* browser.runtime.sendMessage({ action: ... }) of the content script and the
\* options page
SenderMessages == {[field |-> "action", name |-> n] : n \in RequestNames}

Messages ==
  SenderMessages \cup {[field |-> "type", name |-> n] : n \in RequestNames \cup {"ping"}}

MessageAddresses ==
  { <<"a", "@", "x", ".", "c">>,
    <<LSTROKE, "@", "x", ".", "c">>,
    <<>> }

MessageChanges == { [avatarSize |-> 64] }

\* browser.runtime.onMessage: handleMessage(m) up to its first await
HandleMessage(m) ==
  \/ MessageType(m) = "getAvatar" /\ \E raw \in MessageAddresses : GetAvatar(raw)
  \/ MessageType(m) = "updateSettings" /\ \E ns \in MessageChanges : UpdateSettingsCall(ns)
  \/ MessageType(m) = "clearCache" /\ ClearCache
  \/ MessageType(m) = "getCacheStats" /\ GetCacheStats
  \/ UnknownMessage(m)

InitMessages ==
  InitWith([maxCacheSize |-> 2, cacheExpiry |-> 2, enableFavicon |-> FALSE,
            enableLogoAPI |-> FALSE], MaxMessageCalls, MaxUpdates)

NextMessages ==
  \/ \E m \in Messages : HandleMessage(m)
  \/ \E t \in tasks, r \in ProbeOutcomes : ProbeRespond(t, r)
  \/ \E stored \in BOOLEAN : StorageSet(stored)

SpecMessages == InitMessages /\ [][NextMessages]_vars

\* The injector alone, under tab events for two tabs, the scan of the
\* existing tabs, and tabs API calls that resolve or reject.
NextInjector ==
  \/ \E tab \in TabIds : HandleTabUpdated(tab)
  \/ \E tab \in TabIds : HandleTabActivated(tab)
  \/ InjectIntoExistingTabs
  \/ \E c \in thunderbirdInjector.calls, ok \in BOOLEAN, order \in TabOrders :
       TabsApiReturns(c, ok, order)

SpecInjector == Init /\ [][NextInjector]_vars

\* The card injector alone, under scans, batches of added elements, answers
\* to its requests, and destroy.
NextCards ==
  \/ ScanForEmails
  \/ \E el \in Elements : BatchProcessElements(el)
  \/ \E c \in avatarInjector.calls, answered \in BOOLEAN : AvatarDataArrives(c, answered)
  \/ Destroy

SpecCards == Init /\ [][NextCards]_vars

\* The generated initials for addresses of many shapes: the stored blob
\* disables every stage before the initials, so that each getAvatar call
\* applies createBusinessInitials to its address within the call.
StringsOver(chars, lens) == UNION {[1..n -> chars] : n \in lens}

LocalParts ==
  StringsOver({"a", ".", "-", SHARPS}, 0..MaxLocalLen)
    \cup { <<"j", "o", "h", "n", ".", "d", "o", "e">>,
           <<"j", "a", "n", "-", "k", "o", "w", "a", "l", "s", "k", "i">>,
           <<"a", "l">> }

XCom == <<"x", ".", "c", "o", "m">>

\* a domain whose hash is -2147483648
MinIntDomain == <<"x", "j", "l", "a", "l", ".", "b", "a", "h">>

Domains ==
  { l1 \o <<".">> \o l2 : l1, l2 \in StringsOver({"x", "c"}, 1..MaxLabelLen) }
    \cup {GmailCom, MinIntDomain}

InitialsAddresses ==
  { lp \o <<"@">> \o XCom : lp \in LocalParts }
    \cup { <<"a", "@">> \o d : d \in Domains }

InitInitials ==
  InitWith([enableFavicon |-> FALSE, enableLogoAPI |-> FALSE,
            enableGoogleFavicon |-> FALSE], MaxAddrCalls, 0)

NextInitials == \E raw \in InitialsAddresses : GetAvatar(raw)

SpecInitials == InitInitials /\ [][NextInitials]_vars

\* The source chain under each combination of the three stage flags, which
\* stay as loaded, for a domain the known-favicon table has and one it has
\* not.
ChainAddresses ==
  { <<"a", "@", "x", ".", "c">>,
    <<"b", "@">> \o GmailCom }

InitChain ==
  \E fav, logo, goog \in BOOLEAN :
    InitWith([enableFavicon |-> fav, enableLogoAPI |-> logo,
              enableGoogleFavicon |-> goog], MaxAddrCalls, 0)

NextChain ==
  \/ \E raw \in ChainAddresses : GetAvatar(raw)
  \/ \E t \in tasks, r \in ProbeOutcomes : ProbeRespond(t, r)

SpecChain == InitChain /\ [][NextChain]_vars

\* The requests for one address with what the event loop guarantees: the
\* clock advances and the maintenance timer fires.  A HEAD request is issued
\* with fetch(url, {method, mode, cache}) and nothing else, neither a signal
\* nor a timer, so nothing the manager does makes it come back.
SpecJoinFair == SpecJoin /\ WF_vars(Tick) /\ WF_vars(CleanCache)

(***************************************************************************)
(* Claims                                                                  *)
(***************************************************************************)
TasksFor(k) == {t \in tasks : t.email = k}

\* C1: calling getAvatar for an address any number of times before its
\* resolution settles starts fetchAvatar once: in every state at most one
\* resolution per normalized address is in flight, the pending table holds
\* exactly the addresses with a resolution in flight and points at that
\* resolution, and the call that starts a resolution has put it into the
\* pending table by the end of the same step, having found the address neither
\* fresh in the cache nor pending.
C1_OneResolutionPerAddress ==
  /\ \A t \in tasks : TasksFor(t.email) = {t}
  /\ DOMAIN pendingRequests = {t.email : t \in tasks}
  /\ \A t \in tasks : pendingRequests[t.email] = t.id
  /\ (last.op = "getAvatar" /\ last.started /\ ~last.settled) =>
       /\ TasksFor(last.key) = {last.task}
       /\ pendingRequests[last.key] = last.task.id
       /\ last.task.joiners = 0
  /\ (last.op = "getAvatar" /\ last.ret = "join") =>
       /\ ~last.started
       /\ last.probe = <<>>
       /\ \E t \in tasks : TasksFor(last.key) = {t} /\ t.joiners >= 1

\* C1 witness: a third call for the address, written differently, has joined
\* the resolution the first call started
C1_Witness ==
  /\ last.op = "getAvatar"
  /\ last.ret = "join"
  /\ last.raw # last.key
  /\ \E t \in tasks : t.email = last.key /\ t.joiners = 2

AgeBefore == now - MapGet(last.before, last.key).timestamp

\* the latest operation cached a descriptor for an address the cache did not
\* hold, and the cache was at capacity
InsertAtCapacity ==
  /\ last.settled
  /\ last.owner.ok
  /\ ~MapHas(last.before, last.key)
  /\ Len(last.before) >= settings.maxCacheSize

\* C3: with maxCacheSize fixed at M > 0 the cache never holds more than M
\* entries (nor two entries for one address), in any state, however many
\* distinct addresses are resolved and however the calls interleave.
C3_CacheWithinCapacity ==
  /\ Len(cache) <= settings.maxCacheSize
  /\ Cardinality(MapKeys(cache)) = Len(cache)

\* C3 witness: with M = 2, a third distinct address has just been cached into
\* the full cache
C3_Witness ==
  /\ InsertAtCapacity
  /\ settings.maxCacheSize = 2
  /\ Len(cache) = 2
  /\ MapHas(cache, last.key)

\* C4: an insert into a cache at capacity evicts exactly one entry, and that
\* entry has the smallest timestamp of the entries the cache held, also when
\* entries were refreshed after their expiry.
C4_EvictsOldestEntry ==
  InsertAtCapacity =>
    /\ Len(last.evicted) = 1
    /\ \A i \in 1..Len(last.before) :
         last.evicted[1].timestamp <= last.before[i].timestamp

\* C5: the cache is LRU: an entry evicted at an insert is the least recently
\* used one, where an entry is used when it is inserted and when a cache hit
\* returns it.
C5_EvictsLeastRecentlyUsed ==
  (last.settled /\ last.evicted # <<>>) =>
    \A i \in 1..Len(last.evicted) : last.evicted[i].key = last.lru

\* C6: a getAvatar call that finds an entry of age at most cacheExpiry - 1 is
\* a cache hit: it returns the entry's descriptor, starts no resolution and
\* leaves the cache alone.  One that finds an entry of age at least
\* cacheExpiry + 1 is a miss: it is not answered from the cache, and after it
\* a resolution for the address has settled or is in flight (started by this
\* call unless an earlier miss had started it).  The result of a resolution
\* that succeeds replaces the entry, with the time of settling.
C6_TtlBoundary ==
  /\ (last.op = "getAvatar" /\ MapHas(last.before, last.key)) =>
       /\ (AgeBefore <= settings.cacheExpiry - 1) =>
            /\ last.ret = "hit"
            /\ last.hit = MapGet(last.before, last.key).data
            /\ ~last.started
            /\ last.probe = <<>>
            /\ cache = last.before
       /\ (AgeBefore >= settings.cacheExpiry + 1) =>
            /\ last.ret \in {"start", "join"}
            /\ last.ret = "start" => last.started
            /\ last.settled \/ TasksFor(last.key) # {}
  /\ (last.settled /\ last.owner.ok) =>
       /\ MapHas(cache, last.key)
       /\ MapGet(cache, last.key) =
            [key |-> last.key, data |-> last.owner.val, timestamp |-> now]

\* C6 witness: an entry of age cacheExpiry + 1 has been replaced by the result
\* of a new resolution
C6_Witness ==
  /\ last.settled
  /\ last.owner.ok
  /\ MapHas(last.before, last.key)
  /\ AgeBefore = settings.cacheExpiry + 1
  /\ MapGet(cache, last.key).timestamp = now

\* C7: a second request for an address within the TTL of its entry, the entry
\* still being in the cache, returns the descriptor the first resolution
\* returned and starts no resolution: no request is issued.
C7_SecondRequestFromCache ==
  ( /\ last.op = "getAvatar"
    /\ MapHas(last.before, last.key)
    /\ AgeBefore < settings.cacheExpiry ) =>
      /\ last.ret = "hit"
      /\ last.hit = resolved[last.key]
      /\ ~last.started
      /\ last.probe = <<>>
      /\ TasksFor(last.key) = {}
      /\ cache = last.before

\* C7 witness: a hit, one tick after the resolution, on the second of two
\* entries
C7_Witness ==
  /\ last.ret = "hit"
  /\ Len(cache) = 2
  /\ cache[2].key = last.key
  /\ AgeBefore = 1
  /\ last.hit = resolved[last.key]
  /\ last.hit.type = "google-favicon"

ProbedTypes == {"favicon", "company-logo", "google-favicon"}

\* C8: for an address that has a domain, whatever the requests of the
\* favicon, logo and fallback-service stages come back with, the resolution
\* settles with a descriptor whose url is not empty; no error reaches the
\* caller.
C8_DomainAddressAlwaysResolves ==
  (last.settled /\ last.task.domain # Null) =>
    /\ last.owner.ok
    /\ last.owner.val.url # <<>>

\* the palette entry for the text x
PaletteFor(x) == colorSchemes[AbsMod(HashFrom(<<0, 0>>, x), 8) + 1]

\* C9: the generated-initials stage cannot fail: a resolution that no earlier
\* stage answers settles with an initials descriptor, for every address, and
\* for an address without a domain the colours in it are those the hash of
\* the full address selects.
C9_InitialsNeverFail ==
  (last.settled /\ ~(last.owner.ok /\ last.owner.val.type \in ProbedTypes)) =>
    /\ last.owner.ok
    /\ last.owner.val.type = "business-initials"
    /\ last.owner.val.url # <<>>
    /\ last.task.domain = Null =>
         /\ last.owner.val.url[4] = PaletteFor(last.key).primary
         /\ last.owner.val.url[5] = PaletteFor(last.key).secondary
         /\ last.owner.val.url[6] = PaletteFor(last.key).border

\* the text after the last '@' has a '.' with a character on each side
DottedAfterAt(k) ==
  /\ IndexesOf(k, "@") # {}
  /\ LET rest == SubSeq(k, SetMax(IndexesOf(k, "@")) + 1, Len(k))
     IN  \E j \in 2..(Len(rest) - 1) : rest[j] = "."

\* a malformed address: empty after trimming, no '@', more than one '@', or no
\* dotted label after the '@'
Malformed(raw) ==
  \/ Trim(raw) = <<>>
  \/ Cardinality(IndexesOf(Trim(raw), "@")) # 1
  \/ ~DottedAfterAt(Trim(raw))

AllStagesOff(s) == ~s.enableFavicon /\ ~s.enableLogoAPI /\ ~s.enableGoogleFavicon

\* C11: with the favicon, logo and fallback-service stages all switched off, a
\* getAvatar call that starts a resolution settles within the call with a
\* generated-initials descriptor and issues no request, whatever the address.
C11_AllStagesOffGivesInitials ==
  (last.op = "getAvatar" /\ last.started /\ AllStagesOff(settings)) =>
    /\ last.settled
    /\ last.probe = <<>>
    /\ last.owner.ok
    /\ last.owner.val.type = "business-initials"

\* C12: every address that is in the pending table leaves it again: the
\* resolution settles, and with it the call that started it and the calls
\* joined to it, also when a request is never answered.
C12_EveryResolutionSettles ==
  \A k \in {Normalize(raw) : raw \in JoinAddresses} :
    (k \in DOMAIN pendingRequests) ~> (k \notin DOMAIN pendingRequests)

\* C13: when a resolution settles, with a descriptor or with an error, by a
\* response or within the getAvatar call, its address is no longer in the
\* pending table; every address in the pending table has a resolution in
\* flight, and with no resolution in flight the pending table is empty.
C13_PendingOnlyWhileInFlight ==
  /\ last.settled =>
       /\ last.task.email \notin DOMAIN pendingRequests
       /\ TasksFor(last.task.email) = {}
  /\ \A k \in DOMAIN pendingRequests : TasksFor(k) # {}
  /\ tasks = {} => pendingRequests = <<>>

\* C13 witness: a response has settled a resolution with an error, a call was
\* joined to it, and the pending table is empty
C13_Witness ==
  /\ last.op = "respond"
  /\ last.settled
  /\ ~last.owner.ok
  /\ last.task.joiners >= 1
  /\ pendingRequests = <<>>

\* C14: after cleanCache has run, no entry of the cache is older than
\* cacheExpiry, every entry that was younger than cacheExpiry is still there
\* with its descriptor and timestamp, and the cache holds nothing it did not
\* hold before.
C14_PruneRemovesExactlyExpired ==
  last.op = "cleanCache" =>
    /\ \A j \in 1..Len(cache) : ~(now - cache[j].timestamp > settings.cacheExpiry)
    /\ \A i \in 1..Len(last.before) :
         (now - last.before[i].timestamp < settings.cacheExpiry) =>
           \E j \in 1..Len(cache) : cache[j] = last.before[i]
    /\ \A j \in 1..Len(cache) : \E i \in 1..Len(last.before) : last.before[i] = cache[j]

\* C14 witness: cleanCache has removed an entry older than cacheExpiry and
\* kept a younger one
C14_Witness ==
  /\ last.op = "cleanCache"
  /\ \E i \in 1..Len(last.evicted) : now - last.evicted[i].timestamp > settings.cacheExpiry
  /\ \E j \in 1..Len(cache) : now - cache[j].timestamp < settings.cacheExpiry

\* C15: a clearCache step leaves the cache with 0 entries, getCacheStats
\* then reports size 0, and the step changes neither the settings nor the
\* pending table nor the resolutions in flight.
C15_ClearCacheDropsAll ==
  [][ last'.op = "clearCache" =>
        /\ Len(cache') = 0
        /\ getCacheStats(cache', settings').size = 0
        /\ settings' = settings
        /\ pendingRequests' = pendingRequests
        /\ tasks' = tasks ]_vars

\* C15 witness: clearCache has emptied a cache that held entries while a
\* resolution is in flight
C15_Witness ==
  /\ last.op = "clearCache"
  /\ last.before # <<>>
  /\ cache = <<>>
  /\ getCacheStats(cache, settings).size = 0
  /\ pendingRequests # <<>>

\* the addresses getAvatar would answer from the cache
Hits(c, t, s) == {k \in MapKeys(c) : IsFresh(c, k, t, s)}

\* C16 as claimed: an updateSettings step removes no cache entry, and every
\* address that was a cache hit before the step is a cache hit after it,
\* whichever keys the step changed.
C16_SettingsKeepHits ==
  [][ last'.op = "updateSettings" =>
        /\ cache' = cache
        /\ Hits(cache, now, settings) \subseteq Hits(cache', now', settings') ]_vars

\* C16 as amended: an updateSettings step removes and changes no cache entry,
\* also when it lowers maxCacheSize below the number of entries; every address
\* that was a cache hit before the step is a cache hit after it unless the
\* step lowers cacheExpiry, and then exactly the hits whose age is below the
\* new cacheExpiry remain hits.
C16_SettingsKeepEntries ==
  [][ last'.op = "updateSettings" =>
        /\ cache' = cache
        /\ settings'.cacheExpiry >= settings.cacheExpiry =>
             Hits(cache, now, settings) \subseteq Hits(cache', now', settings')
        /\ Hits(cache', now', settings') =
             {k \in MapKeys(cache) : now - MapGet(cache, k).timestamp < settings'.cacheExpiry} ]_vars

\* C16 witness: updateSettings has lowered maxCacheSize to 1 while the cache
\* holds two entries, and both are still cache hits
C16_Witness ==
  /\ last.op = "updateSettings"
  /\ settings.maxCacheSize = 1
  /\ Len(cache) = 2
  /\ Cardinality(Hits(cache, now, settings)) = 2

\* C17: an updateSettings step does not alter how a resolution in flight
\* goes on: for every answer its open request can get, the request it issues
\* next or the outcome it settles with, the size in the descriptor included,
\* is the same with the settings after the step as with the settings before
\* it.
C17_InFlightKeepsSettings ==
  [][ last'.op = "updateSettings" =>
        \A t \in tasks : \A r \in ProbeOutcomes :
          OnResponse(t, r, settings') = OnResponse(t, r, settings) ]_vars

\* the latest operation settled a resolution with generated initials
GaveInitials ==
  /\ last.settled
  /\ last.owner.ok
  /\ last.owner.val.type = "business-initials"

\* the text before the first '@'
LocalPartOf(k) ==
  IF IndexesOf(k, "@") = {} THEN k ELSE SubSeq(k, 1, SetMin(IndexesOf(k, "@")) - 1)

\* the upper-cased first letter of a segment (nothing for an empty segment)
FirstLetterUpper(seg) == IF seg = <<>> THEN <<>> ELSE UpperChar(seg[1])

\* the initials the rule gives for a local part
ExpectedInitials(lp) ==
  LET sep  == IF IndexesOf(lp, ".") # {} THEN "." ELSE "-"
      cuts == IndexesOf(lp, sep)
      c1   == SetMin(cuts)
      c2   == IF cuts \ {c1} = {} THEN Len(lp) + 1 ELSE SetMin(cuts \ {c1})
  IN  IF cuts # {}
        THEN FirstLetterUpper(SubSeq(lp, 1, c1 - 1))
               \o FirstLetterUpper(SubSeq(lp, c1 + 1, c2 - 1))
      ELSE IF Len(lp) >= 2 THEN UpperChar(lp[1]) \o UpperChar(lp[2])
      ELSE IF Len(lp) = 1 THEN UpperChar(lp[1]) \o UpperChar(lp[1])
      ELSE <<>>

\* C18: the initials in a generated-initials descriptor are the ones the rule
\* gives for the local part of the address (first letters of the first two
\* '.'-segments, else of the first two '-'-segments, else the first two
\* characters, a single character twice, all upper-cased); john.doe gives JD,
\* jan-kowalski gives JK, al gives AL and a gives AA.
C18_InitialsFollowRule ==
  GaveInitials =>
    /\ last.owner.val.initials = ExpectedInitials(LocalPartOf(last.key))
    /\ LocalPartOf(last.key) = <<"j", "o", "h", "n", ".", "d", "o", "e">> =>
         last.owner.val.initials = <<"J", "D">>
    /\ LocalPartOf(last.key) = <<"j", "a", "n", "-", "k", "o", "w", "a", "l", "s", "k", "i">> =>
         last.owner.val.initials = <<"J", "K">>
    /\ LocalPartOf(last.key) = <<"a", "l">> => last.owner.val.initials = <<"A", "L">>
    /\ LocalPartOf(last.key) = <<"a">> => last.owner.val.initials = <<"A", "A">>

\* C18 witness: jan-kowalski@x.com has been given the initials JK
C18_Witness ==
  /\ GaveInitials
  /\ last.key = <<"j", "a", "n", "-", "k", "o", "w", "a", "l", "s", "k", "i", "@">> \o XCom
  /\ last.owner.val.initials = <<"J", "K">>

\* C19: the initials in a generated-initials descriptor are 1 or 2 characters.
C19_InitialsOneOrTwo ==
  GaveInitials => Len(last.owner.val.initials) \in {1, 2}

\* the colours written into a generated-initials descriptor
ColorsOf(desc) == [primary |-> desc.url[4], secondary |-> desc.url[5], border |-> desc.url[6]]

\* C20: the colours of a generated-initials descriptor for an address with a
\* domain are an entry of the 8-entry palette, the entry is determined by the
\* domain alone, and it is entry 0 for a domain whose hash is the minimum
\* 32-bit integer (entry 7 for gmail.com, whose hash is negative, and entry 3
\* for x.com).
C20_ColorsFromDomainInRange ==
  (GaveInitials /\ last.task.domain # Null) =>
    /\ \E i \in 1..Len(colorSchemes) : ColorsOf(last.owner.val) = colorSchemes[i]
    /\ ColorsOf(last.owner.val) = PaletteFor(last.task.domain)
    /\ last.task.domain = MinIntDomain => ColorsOf(last.owner.val) = colorSchemes[1]
    /\ last.task.domain = GmailCom => ColorsOf(last.owner.val) = colorSchemes[8]
    /\ last.task.domain = XCom => ColorsOf(last.owner.val) = colorSchemes[4]

\* C20 witness: initials were generated for the domain whose hash is the
\* minimum 32-bit integer, in the colours of palette entry 0
C20_Witness ==
  /\ GaveInitials
  /\ last.task.domain = MinIntDomain
  /\ HashFrom(<<0, 0>>, last.task.domain) = <<32768, 0>>
  /\ ColorsOf(last.owner.val) = colorSchemes[1]

\* the stages of the chain, in order: 1 favicon, 2 company logo, 3 fallback
\* favicon service, 4 generated initials (0: not started)
StageOfPos(pos) ==
  CASE pos \in {"favCand", "favCheck"} -> 1
    [] pos \in {"logoHead", "logoCheck"} -> 2
    [] pos = "google" -> 3
    [] OTHER -> 0

StageOfType(type) ==
  CASE type = "favicon" -> 1
    [] type = "company-logo" -> 2
    [] type = "google-favicon" -> 3
    [] OTHER -> 4

StageOn(i, s) ==
  CASE i = 1 -> s.enableFavicon
    [] i = 2 -> s.enableLogoAPI
    [] i = 3 -> s.enableGoogleFavicon
    [] OTHER -> TRUE

\* the first enabled stage after stage i
StageAfter(i, s) == SetMin({j \in (i + 1)..4 : StageOn(j, s)})

\* the stage of the URL u requested for the domain d
StageOfUrl(u, d) ==
  IF u = clearbitUrl(d) THEN 2
  ELSE IF u[1] = "https://www.google.com/s2/favicons?domain=" THEN 3
  ELSE 1

\* the stage the resolution with id was in before the step (0 for one that
\* the step started)
StageBefore(id) ==
  IF \E t \in tasks : t.id = id
    THEN StageOfPos((CHOOSE t \in tasks : t.id = id).pos)
    ELSE 0

\* C21: the chain is ordered and short-circuiting.  With from the stage a
\* resolution was in before a step: a request the step issues belongs to stage
\* from or to the first enabled stage after it, never to a disabled stage; a
\* descriptor of a probed kind comes from stage from itself, on the URL the
\* stage requested last, and generated initials come only when no enabled
\* probed stage is left after from; a settled resolution issues no request and
\* is gone.  A resolution that waits for the validation of a stage's URL wins
\* with that stage's kind when the answer is an image.
C21_ChainOrderedShortCircuit ==
  /\ [] (\A t \in tasks :
           /\ StageOn(StageOfPos(t.pos), settings)
           /\ t.pos \in {"favCheck", "logoCheck", "google"} =>
                LET run == OnResponse(t, "image", settings)
                IN  /\ run.done
                    /\ run.res.ok
                    /\ StageOfType(run.res.val.type) = StageOfPos(t.pos)
                    /\ run.res.val.url = t.url)
  /\ [][ (last'.op \in {"getAvatar", "respond"} /\ (last'.started \/ last'.op = "respond")) =>
           LET from == StageBefore(last'.task.id)
           IN  /\ last'.probe # <<>> =>
                    /\ ~last'.settled
                    /\ StageOfUrl(last'.probe, last'.task.domain) = StageOfPos(last'.task.pos)
                    /\ StageOfPos(last'.task.pos) \in {from, StageAfter(from, settings)}
                    /\ StageOn(StageOfPos(last'.task.pos), settings)
               /\ last'.settled =>
                    /\ last'.probe = <<>>
                    /\ \A t \in tasks' : t.id # last'.task.id
                    /\ last'.owner.ok =>
                         IF StageOfType(last'.owner.val.type) = 4
                           THEN StageAfter(from, settings) = 4
                           ELSE /\ StageOfType(last'.owner.val.type) = from
                                /\ last'.owner.val.url = last'.task.url ]_vars

\* C21 witness: with the favicon stage on and the logo stage off, a
\* resolution that found no favicon has settled with the favicon of the
\* fallback service
C21_Witness ==
  /\ last.settled
  /\ last.owner.ok
  /\ last.owner.val.type = "google-favicon"
  /\ settings.enableFavicon
  /\ ~settings.enableLogoAPI

\* C22: a resolution that waits for the answer to favicon candidate number
\* idx has requested the idx-th path of the list; an image answer settles it
\* with a favicon descriptor carrying that candidate's URL, and no further
\* request; any other answer makes it request the next path of the list, and
\* after the last path it leaves the favicon stage.
C22_FirstGoodCandidateWins ==
  \A t \in tasks :
    t.pos = "favCand" =>
      /\ t.url = faviconUrls(t.domain)[t.idx]
      /\ LET run == OnResponse(t, "image", settings)
         IN  /\ run.done
             /\ run.probe = <<>>
             /\ run.res.ok
             /\ run.res.val.type = "favicon"
             /\ run.res.val.url = t.url
      /\ \A r \in ProbeOutcomes \ {"image"} :
           LET run == OnResponse(t, r, settings)
           IN  IF t.idx < Len(faviconUrls(t.domain))
                 THEN /\ ~run.done
                      /\ run.task.pos = "favCand"
                      /\ run.task.idx = t.idx + 1
                      /\ run.probe = faviconUrls(t.domain)[t.idx + 1]
                 ELSE run.done \/ StageOfPos(run.task.pos) > 1

\* the URL the known-favicon table has for gmail.com
GmailIco == <<"https://ssl.gstatic.com/ui/v1/icons/mail/rfr/gmail.ico">>

C24_MaintenanceSparesInFlight ==
  /\ [](\A t \in tasks :
          PendingHas(pendingRequests, t.email) /\ pendingRequests[t.email] = t.id)
  /\ []((last.settled /\ last.owner.ok) =>
          /\ last.joiner = last.owner
          /\ MapHas(cache, last.task.email)
          /\ MapGet(cache, last.task.email).data = last.owner.val
          /\ MapGet(cache, last.task.email).timestamp = now
          /\ ~PendingHas(pendingRequests, last.task.email))
  /\ [][ last'.op \in {"cleanCache", "clearCache"} =>
           /\ pendingRequests' = pendingRequests
           /\ tasks' = tasks ]_vars

\* C24 witness: cleanCache has pruned an expired entry while a resolution is
\* in flight, whose pending entry is still there
C24_Witness ==
  /\ last.op = "cleanCache"
  /\ last.evicted # <<>>
  /\ \E t \in tasks : PendingHas(pendingRequests, t.email)

\* base with the keys of over put over it, key by key
Overridden(base, over) ==
  [k \in (DOMAIN base) \cup (DOMAIN over) |->
     IF k \in DOMAIN over THEN over[k] ELSE base[k]]

\* what holds of the loading and of a call of updateSettings whenever its
\* write completes: until the first call the settings are the defaults with
\* the keys of the stored blob put over them, so that every default key the
\* blob lacks has its default; only updateSettings changes the settings; a
\* call makes them the previous settings overridden by the supplied keys and
\* writes exactly them
SettingsLoadedAndMerged ==
  /\ [](updatesLeft = MaxPersistUpdates =>
          /\ settings = Overridden(DefaultSettings, storage)
          /\ \A k \in (DOMAIN DefaultSettings) \ (DOMAIN storage) :
               settings[k] = DefaultSettings[k])
  /\ [][ settings' # settings => last'.op = "updateSettings" ]_vars
  /\ [][ last'.op = "updateSettings" =>
           /\ \E ns \in PersistChanges : settings' = Overridden(settings, ns)
           /\ writes' = Append(writes, settings')
           /\ storage' = storage ]_vars

\* C25 as claimed: the settings are loaded and merged as above, and when the
\* write of an updateSettings call has completed successfully the blob in the
\* storage equals the settings in memory.
C25_PersistedEqualsMemory ==
  /\ SettingsLoadedAndMerged
  /\ [](last.op = "storageSet" => storage = settings)

\* C25 as amended: the settings are loaded and merged as above, and when the
\* write of an updateSettings call has completed successfully the blob in the
\* storage is the settings as that call left them; it equals the settings in
\* memory when no later updateSettings call has been made in the meantime.
C25_PersistedEqualsWritten ==
  /\ SettingsLoadedAndMerged
  /\ [][ last'.op = "storageSet" =>
           /\ storage' = Head(writes)
           /\ Len(writes) = 1 => storage' = settings' ]_vars

\* C25 witness: two calls of updateSettings were made one after the other's
\* completion, the write of the second has completed, and the storage holds
\* the settings in memory, which carry the keys of both calls over those of
\* the loaded blob
C25_Witness ==
  /\ last.op = "storageSet"
  /\ updatesLeft = 0
  /\ writes = <<>>
  /\ storage = settings
  /\ settings.avatarSize = 48
  /\ settings.maxCacheSize = 1
  /\ settings.cacheExpiry = 2

\* C26: what getCacheStats has just returned has size equal to the number of
\* cache entries and maxSize equal to the configured maxCacheSize, and the
\* call has changed nothing of the state.
C26_StatsReportCache ==
  /\ [](last.op = "getCacheStats" =>
          /\ last.stats.size = Len(cache)
          /\ last.stats.maxSize = settings.maxCacheSize)
  /\ [][ last'.op = "getCacheStats" =>
           UNCHANGED <<cache, pendingRequests, tasks, settings, storage, writes>> ]_vars

\* the part of C26 that holds: size is the number of cache entries, maxSize is
\* the configured maxCacheSize whenever that is not 0, and nothing changes
StatsReportCacheUnlessZero ==
  /\ [](last.op = "getCacheStats" =>
          /\ last.stats.size = Len(cache)
          /\ settings.maxCacheSize # 0 => last.stats.maxSize = settings.maxCacheSize)
  /\ [][ last'.op = "getCacheStats" =>
           UNCHANGED <<cache, pendingRequests, tasks, settings, storage, writes>> ]_vars

\* C28: once an insert has completed the cache holds at most maxCacheSize
\* entries, whatever getAvatar, cleanCache, clearCache and updateSettings calls
\* came before, those that lower maxCacheSize or set it to 0 included.
C28_InsertRestoresCapacity ==
  (last.settled /\ last.owner.ok) => Len(cache) <= settings.maxCacheSize

\* the canonical form of an address: lower-cased, then trimmed
Canon(x) == Trim(ToLowerCase(x))

\* the canonical forms of the addresses getAvatar is called with
CanonicalJoinAddresses == {Canon(raw) : raw \in JoinAddresses}

\* C27: every key of the cache and of the pending table equals its own
\* canonical form; the cache holds at most one entry, and at most one
\* resolution is in flight, per canonical form of the addresses asked for, so
\* that addresses differing only in case or surrounding whitespace share
\* them; and a getAvatar call looks up, joins or starts under the canonical
\* form of its raw address.
C27_CanonicalKeys ==
  /\ \A k \in MapKeys(cache) \cup DOMAIN pendingRequests : k = Canon(k)
  /\ MapKeys(cache) \subseteq CanonicalJoinAddresses
  /\ Cardinality(MapKeys(cache)) = Len(cache)
  /\ \A t \in tasks : t.email \in CanonicalJoinAddresses /\ TasksFor(t.email) = {t}
  /\ (last.op = "getAvatar" /\ last.raw # <<>>) =>
       /\ last.key = Canon(last.raw)
       /\ last.ret = "hit" =>
            /\ MapHas(cache, Canon(last.raw))
            /\ last.hit = MapGet(cache, Canon(last.raw)).data
       /\ last.ret = "join" => PendingHas(pendingRequests, Canon(last.raw))
       /\ (last.started /\ ~last.settled) =>
            PendingHas(pendingRequests, Canon(last.raw))

\* C27 witness: a call with the address written in upper case and with
\* surrounding blanks is answered from the one cache entry, whose key is the
\* canonical form
C27_Witness ==
  /\ last.op = "getAvatar"
  /\ last.ret = "hit"
  /\ last.raw # last.key
  /\ Cardinality(JoinAddresses) = 2
  /\ Len(cache) = 1
  /\ cache[1].key = Canon(last.raw)

\* C29: when the result cached by a settling resolution replaces the entry of
\* an address the cache already held, no entry is evicted and the number of
\* entries stays the same.
C29_RefreshEvictsNothing ==
  (last.settled /\ last.owner.ok /\ MapHas(last.before, last.key)) =>
    /\ last.evicted = <<>>
    /\ Len(cache) = Len(last.before)

\* the part of C29 that holds: a refresh evicts nothing while the cache is
\* below its capacity, and never evicts more than one entry
RefreshBelowCapacity ==
  (last.settled /\ last.owner.ok /\ MapHas(last.before, last.key)) =>
    /\ Len(last.before) < settings.maxCacheSize =>
         last.evicted = <<>> /\ Len(cache) = Len(last.before)
    /\ Len(last.evicted) <= 1

\* C30: right after cleanCache has run, every entry left in the cache is one
\* getAvatar would answer from the cache at that instant.
C30_PruneAgreesWithHit ==
  last.op = "cleanCache" => \A k \in MapKeys(cache) : IsFresh(cache, k, now, settings)

\* the part of C30 that holds: right after cleanCache the entries left are
\* those of age at most cacheExpiry, and all but those of age exactly
\* cacheExpiry are cache hits
PruneAgreesBelowExpiry ==
  last.op = "cleanCache" =>
    \A i \in 1..Len(cache) :
      /\ now - cache[i].timestamp <= settings.cacheExpiry
      /\ now - cache[i].timestamp # settings.cacheExpiry =>
           IsFresh(cache, cache[i].key, now, settings)

\* C31: when a resolution settles with a failure the cache is exactly what it
\* was, the pending entry of the address is gone and no resolution for it is
\* left, and the joined calls get the failure the owner gets; no cache entry
\* ever holds anything but a descriptor a resolution returned, so a failure is
\* never answered from the cache; and a getAvatar call for an address that is
\* neither a cache hit nor pending starts a resolution.
C31_FailureLeavesNoTrace ==
  /\ []((last.settled /\ ~last.owner.ok) =>
          /\ cache = last.before
          /\ last.evicted = <<>>
          /\ ~PendingHas(pendingRequests, last.task.email)
          /\ TasksFor(last.task.email) = {}
          /\ last.joiner = last.owner
          /\ ~last.joiner.ok)
  /\ [](\A i \in 1..Len(cache) :
          /\ cache[i].data # NoDesc
          /\ cache[i].data.type # "none"
          /\ cache[i].data = resolved[cache[i].key])
  /\ [][ (/\ last'.op = "getAvatar"
          /\ last'.raw # <<>>
          /\ ~IsFresh(cache, last'.key, now, settings)
          /\ ~PendingHas(pendingRequests, last'.key)) => last'.started ]_vars

\* C31 witness: a resolution that a call had joined fails while the cache
\* holds the expired entry of an earlier resolution of the address, and the
\* cache is left as it was
C31_Witness ==
  /\ last.settled
  /\ ~last.owner.ok
  /\ last.task.joiners >= 1
  /\ last.before # <<>>
  /\ cache = last.before
  /\ pendingRequests = <<>>

\* C32: a getAvatar call with a null, undefined or empty address returns null,
\* starts no resolution, issues no request, and leaves the cache, the pending
\* table and the resolutions in flight as they were.
C32_NullAddressNoEffect ==
  [][ (last'.op = "getAvatar" /\ last'.raw = <<>>) =>
        /\ last'.ret = "null"
        /\ ~last'.started
        /\ ~last'.settled
        /\ last'.probe = <<>>
        /\ cache' = cache
        /\ pendingRequests' = pendingRequests
        /\ tasks' = tasks ]_vars

\* C32 witness: getAvatar was called without an address and has returned null
C32_Witness ==
  /\ last.op = "getAvatar"
  /\ last.raw = <<>>
  /\ last.ret = "null"
  /\ callsLeft = MaxAddrCalls - 1
  /\ cache = <<>>
  /\ pendingRequests = <<>>
  /\ tasks = {}

\* C33: the descriptor stored under a key records that key as its address and
\* the domain extractDomain derives from that key, and the timestamp of the
\* entry is not later than the current time.
C33_EntryMatchesKey ==
  \A i \in 1..Len(cache) :
    /\ cache[i].data.email = cache[i].key
    /\ cache[i].data.domain = extractDomain(cache[i].key)
    /\ cache[i].timestamp <= now

\* C33 witness: the cache holds, since an earlier time, the validated image
\* of an address with two @ signs, whose domain is the text after the last
C33_Witness ==
  /\ Len(cache) = 1
  /\ cache[1].key = <<"a", "@", "b", "@", "x", ".", "c">>
  /\ cache[1].data.domain = <<"x", ".", "c">>
  /\ cache[1].data.type \in {"favicon", "company-logo", "google-favicon"}
  /\ cache[1].timestamp < now

\* the number of calls waiting for the resolutions in S: the one that started
\* each and those that joined it
RECURSIVE Owed(_)
Owed(S) ==
  IF S = {} THEN 0
  ELSE LET t == CHOOSE x \in S : TRUE IN 1 + t.joiners + Owed(S \ {t})

\* the messages received and not yet answered
Waiting == Owed(tasks) + Len(writes)

\* the operations that begin with the receipt of a message
MessageOps == {"getAvatar", "updateSettings", "clearCache", "getCacheStats", "unknown"}

SuccessWith(key) == [success |-> TRUE, key |-> key, error |-> ""]

FailureWith(msg) == [success |-> FALSE, key |-> "error", error |-> msg]

\* C34: every message gets one response and no more: a step that receives a
\* message either answers it or leaves it waiting, a message waits only for a
\* resolution or a write in progress, and each settling answers exactly the
\* messages that waited for it.  The response is success with the result for
\* the four known types, the failure 'Unknown message type' for any other,
\* and the failure with the error when the operation rejects.
C34_OneResponsePerMessage ==
  /\ [][ Waiting' = Waiting + (IF last'.op \in MessageOps THEN 1 ELSE 0)
                      - Len(last'.replies) ]_vars
  /\ [](/\ (last.op = "getAvatar" /\ last.ret \in {"null", "hit"}) =>
             last.replies = <<SuccessWith("avatar")>>
        /\ (last.op = "getAvatar" /\ ~last.settled /\ last.ret \in {"join", "start"}) =>
             last.replies = <<>>
        /\ (last.op = "respond" /\ ~last.settled) => last.replies = <<>>
        /\ last.settled =>
             /\ Len(last.replies) = 1 + last.task.joiners
             /\ \A i \in 1..Len(last.replies) :
                  last.replies[i] = IF last.owner.ok THEN SuccessWith("avatar")
                                                     ELSE FailureWith(last.owner.err)
        /\ last.op = "updateSettings" => last.replies = <<>>
        /\ last.op = "storageSet" => last.replies = <<SuccessWith("settings")>>
        /\ last.op = "storageSetFailed" =>
             /\ Len(last.replies) = 1
             /\ ~last.replies[1].success
             /\ last.replies[1].error # ""
        /\ last.op = "clearCache" => last.replies = <<SuccessWith("result")>>
        /\ last.op = "getCacheStats" => last.replies = <<SuccessWith("stats")>>
        /\ last.op = "unknown" => last.replies = <<FailureWith("Unknown message type")>>)

\* C34 witness: a resolution that a second message had joined fails, and both
\* messages are answered with the failure
C34_Witness ==
  /\ last.settled
  /\ ~last.owner.ok
  /\ last.task.joiners = 1
  /\ last.replies = <<FailureWith("InvalidCharacterError"), FailureWith("InvalidCharacterError")>>
  /\ Waiting = 0

\* the property of the reply that the sender of a request reads first:
\* avatarData.url in the content script, response.cleared, response.settings
\* and response.size in the options page (which takes the whole reply to
\* updateSettings for the settings)
SenderReads(name) ==
  CASE name = "getAvatar"      -> "url"
    [] name = "clearCache"     -> "cleared"
    [] name = "getCacheStats"  -> "size"
    [] name = "updateSettings" -> "maxCacheSize"

\* the properties of a response of handleMessage
ResponseKeys(r) == {"success", r.key}

\* C35: no message the content script or the options page sends is answered
\* by the default branch: handleMessage reads from it the request it names,
\* and the response to it is a success that has the property its sender
\* reads.
C35_SenderRequestsDispatched ==
  /\ last.op = "unknown" => last.msg \notin SenderMessages
  /\ last.msg \in SenderMessages =>
       /\ MessageType(last.msg) = last.msg.name
       /\ \A i \in 1..Len(last.replies) :
            /\ last.replies[i].success
            /\ SenderReads(last.msg.name) \in ResponseKeys(last.replies[i])

\* C36: the stylesheet and each of the two content scripts are injected into
\* a tab at most once, however the tab events and the scan interleave.
C36_InjectsAtMostOnce ==
  \A tab \in TabIds :
    /\ thunderbirdInjector.injected[tab].css <= 1
    /\ thunderbirdInjector.injected[tab].content <= 1
    /\ thunderbirdInjector.injected[tab].integration <= 1

\* the cards in the document that were created for the element el
CardsFor(el) == {c \in avatarInjector.cards : c.element = el}

\* C37: the document never holds more than one card for a target element;
\* until destroy every card in the document is the one activeCards has for
\* its element; and after destroy no card is left in the document.
C37_OneCardPerElement ==
  /\ \A el \in Elements : Cardinality(CardsFor(el)) <= 1
  /\ ~avatarInjector.destroyed =>
       \A c \in avatarInjector.cards :
         ActiveHas(avatarInjector, c.element) /\ avatarInjector.activeCards[c.element] = c.id
  /\ avatarInjector.destroyed => avatarInjector.cards = {}

\* C38: when the write of an updateSettings call has failed, and no other
\* write is in progress, the settings in memory are what the last blob stored
\* successfully gives when loaded: the failed call has changed nothing.
C38_FailedUpdateChangesNothing ==
  (last.op = "storageSetFailed" /\ writes = <<>>) =>
    /\ last.replies = <<FailureWith("storage")>>
    /\ settings = Overridden(DefaultSettings, storage)

====
